---- MODULE Spec2Model ----
(***************************************************************************)
(* Model of survey_data.importData and SurveyResults.__init__ as driven    *)
(* by run.py.                                                              *)
(*                                                                         *)
(* A text is a sequence of symbols.  A symbol is a single character        *)
(* wherever the code looks at characters (the quote, the comma, the        *)
(* newline, '#', space, '/', the digits, the sign) and an indivisible run  *)
(* of other characters elsewhere (a month name, the words of an answer).   *)
(***************************************************************************)
EXTENDS Integers, Sequences, FiniteSets, TLC

VARIABLES answers, content, fpos, fstate, line, data, pc, err, results

vars == <<answers, content, fpos, fstate, line, data, pc, err, results>>

QUOTE == "\""
COMMA == ","
NL == "\n"

Digits == {"0", "1", "2", "3", "4", "5", "6", "7", "8", "9"}

Whitespace == {" ", NL}

DigitVal(c) ==
  CASE c = "0" -> 0 [] c = "1" -> 1 [] c = "2" -> 2 [] c = "3" -> 3
    [] c = "4" -> 4 [] c = "5" -> 5 [] c = "6" -> 6 [] c = "7" -> 7
    [] c = "8" -> 8 [] c = "9" -> 9

(* ---------------- str.split, str.strip, int ---------------- *)

\* the least index of a set of indices, else the given default
FirstIn(hits, default) ==
  IF hits = {} THEN default
  ELSE CHOOSE j \in hits : \A k \in hits : j <= k

\* index of the first occurrence of symbol d in s at or after i, else Len(s)+1
FindFrom(s, d, i) == FirstIn({j \in i..Len(s) : s[j] = d}, Len(s) + 1)

\* str.split(d): the pieces between the occurrences of d; one piece, possibly
\* empty, when d does not occur
RECURSIVE Split(_, _)
Split(s, d) ==
  LET j == FindFrom(s, d, 1)
  IN IF j > Len(s) THEN <<s>>
     ELSE <<SubSeq(s, 1, j - 1)>> \o Split(SubSeq(s, j + 1, Len(s)), d)

LStrip(s, chars) ==
  SubSeq(s, FirstIn({j \in 1..Len(s) : s[j] \notin chars}, Len(s) + 1),
         Len(s))

RStrip(s, chars) ==
  LET keep == {j \in 1..Len(s) : s[j] \notin chars}
  IN IF keep = {} THEN <<>>
     ELSE SubSeq(s, 1, CHOOSE j \in keep : \A k \in keep : k <= j)

\* str.strip(chars): drops the symbols of chars from both ends
Strip(s, chars) == RStrip(LStrip(s, chars), chars)

RECURSIVE DigitsValue(_)
DigitsValue(s) ==
  IF s = <<>> THEN 0
  ELSE 10 * DigitsValue(SubSeq(s, 1, Len(s) - 1)) + DigitVal(s[Len(s)])

AllDigits(s) == s # <<>> /\ \A i \in 1..Len(s) : s[i] \in Digits

\* int(text): surrounding whitespace is dropped, one optional sign, then
\* decimal digits; anything else raises ValueError (ok = FALSE)
PyInt(s) ==
  LET t == Strip(s, Whitespace)
      signed == t # <<>> /\ Head(t) \in {"+", "-"}
      body == IF signed THEN Tail(t) ELSE t
  IN IF AllDigits(body)
     THEN [ok |-> TRUE,
           val |-> IF signed /\ Head(t) = "-" THEN 0 - DigitsValue(body)
                   ELSE DigitsValue(body)]
     ELSE [ok |-> FALSE, val |-> 0]

(* ---------------- datetime.strptime(text, "%B %d, %Y %H:%M") ---------------- *)

MonthNum ==
  ("January" :> 1) @@ ("February" :> 2) @@ ("March" :> 3) @@ ("April" :> 4)
  @@ ("May" :> 5) @@ ("June" :> 6) @@ ("July" :> 7) @@ ("August" :> 8)
  @@ ("September" :> 9) @@ ("October" :> 10) @@ ("November" :> 11)
  @@ ("December" :> 12)

\* first index at or after i that holds no digit
EndDigits(s, i) ==
  FirstIn({j \in i..Len(s) : s[j] \notin Digits}, Len(s) + 1)

\* first index at or after i that holds no whitespace
SkipWs(s, i) ==
  FirstIn({j \in i..Len(s) : s[j] \notin Whitespace}, Len(s) + 1)

IsLeap(y) == y % 4 = 0 /\ (y % 100 # 0 \/ y % 400 = 0)

DaysIn(m, y) ==
  IF m = 2 THEN (IF IsLeap(y) THEN 29 ELSE 28)
  ELSE IF m \in {4, 6, 9, 11} THEN 30 ELSE 31

\* The format is a month name, whitespace, a day of one or two digits, a
\* comma, whitespace, a year of four digits, whitespace, an hour of one or
\* two digits, a colon and a minute of one or two digits, with nothing
\* after it; the date must exist.  Anything else raises ValueError.
Strptime(s) ==
  LET a == SkipWs(s, 2)
      b == EndDigits(s, a)
      c == SkipWs(s, b + 1)
      d == EndDigits(s, c)
      e == SkipWs(s, d)
      f == EndDigits(s, e)
      g == EndDigits(s, f + 1)
      day == DigitsValue(SubSeq(s, a, b - 1))
      year == DigitsValue(SubSeq(s, c, d - 1))
      hour == DigitsValue(SubSeq(s, e, f - 1))
      minute == DigitsValue(SubSeq(s, f + 1, g - 1))
      ok == /\ Len(s) >= 1
            /\ s[1] \in DOMAIN MonthNum
            /\ a > 2
            /\ b - a \in 1..2
            /\ b <= Len(s)
            /\ s[b] = COMMA
            /\ c > b + 1
            /\ d - c = 4
            /\ e > d
            /\ f - e \in 1..2
            /\ f <= Len(s)
            /\ s[f] = ":"
            /\ g - (f + 1) \in 1..2
            /\ g = Len(s) + 1
            /\ year >= 1
            /\ day \in 1..DaysIn(MonthNum[s[1]], year)
            /\ hour \in 0..23
            /\ minute \in 0..59
  IN IF ok
     THEN [ok |-> TRUE,
           val |-> [year |-> year, month |-> MonthNum[s[1]], day |-> day,
                    hour |-> hour, minute |-> minute]]
     ELSE [ok |-> FALSE, val |-> 0]

(* ---------------- the scoring dictionaries ---------------- *)

\* d_income numbered from 1
d_income_from_one ==
  (<<"$10", COMMA, "000 or less">> :> 1)
  @@ (<<"$10", COMMA, "001 - $25", COMMA, "000">> :> 2)
  @@ (<<"$25", COMMA, "001 - $50", COMMA, "000">> :> 3)
  @@ (<<"$50", COMMA, "001 - $75", COMMA, "000">> :> 4)
  @@ (<<"$75", COMMA, "001 - $100", COMMA, "000">> :> 5)
  @@ (<<"$100", COMMA, "001 - $150", COMMA, "000">> :> 6)
  @@ (<<"$150", COMMA, "001 or more">> :> 7)

d_income ==
  (<<"$10", COMMA, "000 or less">> :> 0)
  @@ (<<"$10", COMMA, "001 - $25", COMMA, "000">> :> 1)
  @@ (<<"$25", COMMA, "001 - $50", COMMA, "000">> :> 2)
  @@ (<<"$50", COMMA, "001 - $75", COMMA, "000">> :> 3)
  @@ (<<"$75", COMMA, "001 - $100", COMMA, "000">> :> 4)
  @@ (<<"$100", COMMA, "001 - $150", COMMA, "000">> :> 5)
  @@ (<<"$150", COMMA, "001 or more">> :> 6)

d_education ==
  (<<"Did not complete high school">> :> 0)
  @@ (<<"High school diploma">> :> 1)
  @@ (<<"Vocational School">> :> 2)
  @@ (<<"College degree">> :> 3)
  @@ (<<"Master's degree">> :> 4)
  @@ (<<"Higher degree (including doctorate or law degree)">> :> 5)

d_business ==
  (<<"No">> :> 0)
  @@ (<<"Self-employed (no other employees)">> :> 1)
  @@ (<<"Small business">> :> 2)
  @@ (<<"Mid-size business (or multiple small businesses", COMMA,
        " e.g. franchises)">> :> 3)
  @@ (<<"Large business">> :> 4)

d_rentals ==
  (<<"No">> :> 0)
  @@ (<<"One or a few (e.g. renting a basement or old family home)">> :> 1)
  @@ (<<"Several homes", COMMA, " or a commercial property">> :> 2)
  @@ (<<"Many homes or commercial properties">> :> 3)

d_homes ==
  (<<"No">> :> 0)
  @@ (<<"Single home">> :> 1)
  @@ (<<"Single home + vacation property">> :> 2)
  @@ (<<"Several homes or vacation properties">> :> 3)

d_policies ==
  (<<"Strongly disagree">> :> -2)
  @@ (<<"Disagree">> :> -1)
  @@ (<<"Neutral">> :> 0)
  @@ (<<"Agree">> :> 1)
  @@ (<<"Strongly Agree">> :> 2)

d_politics ==
  (<<"Far-left">> :> -2)
  @@ (<<"Liberal">> :> -1)
  @@ (<<"Undecided">> :> 0)
  @@ (<<"Conservative">> :> 1)
  @@ (<<"Far-right">> :> 2)

\* d[key]: KeyError (ok = FALSE) when key is no key of d
Lookup(d, key) ==
  IF key \in DOMAIN d THEN [ok |-> TRUE, val |-> d[key]]
  ELSE [ok |-> FALSE, val |-> 0]

\* seq[i] with Python's indices from 0: IndexError (ok = FALSE) past the end
Item(seq, i) ==
  IF i + 1 <= Len(seq) THEN [ok |-> TRUE, val |-> seq[i + 1]]
  ELSE [ok |-> FALSE, val |-> <<>>]

\* d[seq[i]]
LookupItem(d, seq, i) ==
  IF Item(seq, i).ok THEN Lookup(d, Item(seq, i).val)
  ELSE [ok |-> FALSE, val |-> 0]

(* ---------------- importData: one pass of the loop body ---------------- *)

Keys ==
  {"entry", "response time", "subjective SES", "income", "education",
   "businesses", "rentals", "homes", "policy question 1",
   "policy question 2", "policy question 3", "policy question 4",
   "politics"}

\* the characters str.strip(' ,/10') removes
SESStripChars == {" ", COMMA, "/", "1", "0"}

\* SubjectiveSES without the two literals
SubjectiveSESStripOnly(seg) == Strip(seg, SESStripChars)

\* cleans the subjective SES text: the two literals, else the strip
SubjectiveSES(seg) ==
  IF seg = <<COMMA, "1", " ", "/", " ", "1", "0", COMMA>> THEN <<"1">>
  ELSE IF seg = <<COMMA, "1", "0", " ", "/", " ", "1", "0", COMMA>>
  THEN <<"1", "0">>
  ELSE Strip(seg, SESStripChars)

\* Policy4 without the negation
Policy4NotNegated(seq) == LookupItem(d_policies, seq, 7)

\* policy_4 = -d_policies[...]
Policy4(seq) ==
  LET r == LookupItem(d_policies, seq, 7)
  IN [ok |-> r.ok, val |-> 0 - r.val]

\* d_politics[split_comma[8].strip('\n')]
Politics(seq) ==
  IF Item(seq, 8).ok
  THEN Lookup(d_politics, Strip(Item(seq, 8).val, {NL}))
  ELSE [ok |-> FALSE, val |-> 0]

\* the keys whose list has been appended to when the statement of the given
\* stage raises; stage 8 is the end of the body
AppendedBefore(stage) ==
  (IF stage >= 2 THEN {"entry"} ELSE {})
  \cup (IF stage >= 3 THEN {"response time"} ELSE {})
  \cup (IF stage >= 4 THEN {"subjective SES"} ELSE {})
  \cup (IF stage >= 5 THEN {"income", "education"} ELSE {})
  \cup (IF stage >= 6 THEN {"businesses", "rentals", "homes"} ELSE {})
  \cup (IF stage >= 7
        THEN {"policy question 1", "policy question 2", "policy question 3",
              "policy question 4"}
        ELSE {})
  \cup (IF stage >= 8 THEN {"politics"} ELSE {})

\* The body of the while loop on one line: the values it computes, and the
\* stage at which it raises (8: it does not).
\*   0  split_quote[4]                       IndexError
\*   1  int(entry)                           ValueError
\*   2  datetime.strptime                    ValueError
\*   3  int(subjective_SES)                  ValueError
\*   4  d_income[..], d_education[..]        KeyError, IndexError
\*   5  d_business, d_rentals, d_homes       KeyError, IndexError
\*   6  d_policies, four times               KeyError, IndexError
\*   7  d_politics[split_comma[8].strip()]   KeyError, IndexError
Body(ln) ==
  LET split_quote == Split(ln, QUOTE)
      split_comma == Tail(Split(split_quote[5], COMMA))
      entry == PyInt(Strip(split_quote[1], {"#", COMMA}))
      response == Strptime(split_quote[2])
      subj == PyInt(SubjectiveSES(split_quote[3]))
      income == Lookup(d_income, split_quote[4])
      education == LookupItem(d_education, split_comma, 0)
      businesses == LookupItem(d_business, split_comma, 1)
      rentals == LookupItem(d_rentals, split_comma, 2)
      homes == LookupItem(d_homes, split_comma, 3)
      policy_1 == LookupItem(d_policies, split_comma, 4)
      policy_2 == LookupItem(d_policies, split_comma, 5)
      policy_3 == LookupItem(d_policies, split_comma, 6)
      policy_4 == Policy4(split_comma)
      politics == Politics(split_comma)
      stage ==
        IF Len(split_quote) < 5 THEN 0
        ELSE IF ~entry.ok THEN 1
        ELSE IF ~response.ok THEN 2
        ELSE IF ~subj.ok THEN 3
        ELSE IF ~(income.ok /\ education.ok) THEN 4
        ELSE IF ~(businesses.ok /\ rentals.ok /\ homes.ok) THEN 5
        ELSE IF ~(policy_1.ok /\ policy_2.ok /\ policy_3.ok /\ policy_4.ok)
        THEN 6
        ELSE IF ~politics.ok THEN 7
        ELSE 8
      done == AppendedBefore(stage)
      V(k, r) == IF k \in done THEN r.val ELSE 0
  IN [stage |-> stage,
      vals |->
        ("entry" :> V("entry", entry))
        @@ ("response time" :> V("response time", response))
        @@ ("subjective SES" :> V("subjective SES", subj))
        @@ ("income" :> V("income", income))
        @@ ("education" :> V("education", education))
        @@ ("businesses" :> V("businesses", businesses))
        @@ ("rentals" :> V("rentals", rentals))
        @@ ("homes" :> V("homes", homes))
        @@ ("policy question 1" :> V("policy question 1", policy_1))
        @@ ("policy question 2" :> V("policy question 2", policy_2))
        @@ ("policy question 3" :> V("policy question 3", policy_3))
        @@ ("policy question 4" :> V("policy question 4", policy_4))
        @@ ("politics" :> V("politics", politics))]

\* what d[seq[i]] raises, "" when it raises nothing
ItemError(d, seq, i) ==
  IF ~Item(seq, i).ok THEN "IndexError"
  ELSE IF ~LookupItem(d, seq, i).ok THEN "KeyError"
  ELSE ""

\* the first of the texts that is not empty
RECURSIVE FirstError(_)
FirstError(es) ==
  IF es = <<>> THEN ""
  ELSE IF Head(es) # "" THEN Head(es)
  ELSE FirstError(Tail(es))

\* the exception the body raises on the line, "" when it raises none
ErrorOf(ln) ==
  LET st == Body(ln).stage
      split_quote == Split(ln, QUOTE)
      sc == Tail(Split(split_quote[5], COMMA))
  IN CASE st = 0 -> "IndexError"
       [] st \in 1..3 -> "ValueError"
       [] st = 4 ->
            IF ~Lookup(d_income, split_quote[4]).ok THEN "KeyError"
            ELSE ItemError(d_education, sc, 0)
       [] st = 5 ->
            FirstError(<<ItemError(d_business, sc, 1),
                         ItemError(d_rentals, sc, 2),
                         ItemError(d_homes, sc, 3)>>)
       [] st = 6 ->
            FirstError(<<ItemError(d_policies, sc, 4),
                         ItemError(d_policies, sc, 5),
                         ItemError(d_policies, sc, 6),
                         ItemError(d_policies, sc, 7)>>)
       [] st = 7 ->
            IF ~Item(sc, 8).ok THEN "IndexError" ELSE "KeyError"
       [] OTHER -> ""

\* f.readline(): the text after the read position up to and including the
\* next newline, or up to the end of the file; empty at the end of the file
ReadLine(text, pos) ==
  LET rest == SubSeq(text, pos + 1, Len(text))
      j == FindFrom(rest, NL, 1)
  IN IF j > Len(rest) THEN rest ELSE SubSeq(rest, 1, j)

\* AppendFields with insert(0, ..) in place of append
AppendFieldsAtFront(d, b) ==
  [k \in Keys |->
     IF k \in AppendedBefore(b.stage) THEN <<b.vals[k]>> \o d[k] ELSE d[k]]

\* data[k].append(..) for the keys reached before the stage
AppendFields(d, b) ==
  [k \in Keys |->
     IF k \in AppendedBefore(b.stage) THEN Append(d[k], b.vals[k]) ELSE d[k]]

EmptyData == [k \in Keys |-> <<>>]

\* element-wise sum of two arrays of one length
ArrayAdd(x, y) == [i \in 1..Len(x) |-> x[i] + y[i]]

objective_scores(d) == ArrayAdd(d["income"], d["education"])

property_scores(d) ==
  ArrayAdd(ArrayAdd(d["businesses"], d["rentals"]), d["homes"])

\* policy_scores subtracting the stored fourth score
policy_scores_minus4(d) ==
  [i \in 1..Len(d["policy question 1"]) |->
     d["policy question 1"][i] + d["policy question 2"][i]
     + d["policy question 3"][i] - d["policy question 4"][i]]

policy_scores(d) ==
  ArrayAdd(ArrayAdd(ArrayAdd(d["policy question 1"], d["policy question 2"]),
                    d["policy question 3"]),
           d["policy question 4"])

(* ---------------- the input file ---------------- *)

\* A response as the survey tool exports it: the text of each of the 13
\* columns, the further columns after them (normally none), the line end,
\* and which columns are written between quotes.
Col(r) ==
  <<r.entry, r.time, r.subj, r.income, r.education, r.businesses, r.rentals,
    r.homes, r.policy1, r.policy2, r.policy3, r.policy4, r.politics>>
  \o r.extra

HasComma(t) == \E i \in 1..Len(t) : t[i] = COMMA

\* "csv": the spreadsheet export, which quotes a column that holds a comma;
\* "fixed": quotes exactly the response time and the income, the two columns
\* the parser expects between quotes
Written(r, i) ==
  LET t == Col(r)[i]
  IN IF \/ r.quote = "csv" /\ HasComma(t)
        \/ r.quote = "fixed" /\ i \in {2, 4}
     THEN <<QUOTE>> \o t \o <<QUOTE>>
     ELSE t

RECURSIVE JoinFrom(_, _)
JoinFrom(r, i) ==
  IF i > Len(Col(r)) THEN <<>>
  ELSE IF i = Len(Col(r)) THEN Written(r, i)
  ELSE Written(r, i) \o <<COMMA>> \o JoinFrom(r, i + 1)

WriteLine(r) == JoinFrom(r, 1) \o r.eol

RECURSIVE WriteFile(_)
WriteFile(rs) ==
  IF rs = <<>> THEN <<>> ELSE WriteLine(Head(rs)) \o WriteFile(Tail(rs))

\* the lines of a text, as successive readline calls return them
RECURSIVE LinesOf(_)
LinesOf(text) ==
  LET j == FindFrom(text, NL, 1)
  IN IF text = <<>> THEN <<>>
     ELSE IF j > Len(text) THEN <<text>>
     ELSE <<SubSeq(text, 1, j)>> \o LinesOf(SubSeq(text, j + 1, Len(text)))

(* ---------------- the inputs explored ---------------- *)

MaxLines == 2

MaxFieldLines == 1

MaxScore == 20

RECURSIVE ToDigits(_)
ToDigits(n) ==
  LET c == CHOOSE ch \in Digits : DigitVal(ch) = n % 10
  IN IF n < 10 THEN <<c>> ELSE ToDigits(n \div 10) \o <<c>>

\* the text of the subjective-status column for a score text: "N / 10"
Over10(t) == t \o <<" ", "/", " ", "1", "0">>

Base ==
  [entry |-> <<"#", "1">>,
   time |-> <<"July", " ", "1", "2", COMMA, " ", "2", "0", "2", "1", " ",
              "0", "9", ":", "4", "1">>,
   subj |-> Over10(<<"5">>),
   income |-> <<"$50", COMMA, "001 - $75", COMMA, "000">>,
   education |-> <<"College degree">>,
   businesses |-> <<"No">>,
   rentals |-> <<"No">>,
   homes |-> <<"Single home">>,
   policy1 |-> <<"Agree">>,
   policy2 |-> <<"Neutral">>,
   policy3 |-> <<"Disagree">>,
   policy4 |-> <<"Strongly Agree">>,
   politics |-> <<"Liberal">>,
   extra |-> <<>>,
   eol |-> <<NL>>,
   quote |-> "csv"]

Second ==
  [Base EXCEPT !.entry = <<"#", "1", "2">>,
               !.time = <<"February", " ", "2", "9", COMMA, " ", "2", "0",
                          "2", "0", " ", "2", "3", ":", "5">>,
               !.subj = Over10(<<"1", "0">>),
               !.income = <<"$150", COMMA, "001 or more">>,
               !.education = <<"Master's degree">>,
               !.businesses = <<"Large business">>,
               !.rentals = <<"Many homes or commercial properties">>,
               !.policy4 = <<"Strongly disagree">>,
               !.politics = <<"Far-right">>]

\* well-formed and malformed responses, one kind of fault each
GeneralRecords ==
  {Base, Second,
   [Base EXCEPT !.eol = <<>>],
   [Base EXCEPT !.eol = <<NL, NL>>],
   [Base EXCEPT !.extra = <<<<"thanks", COMMA, " bye">>>>],
   [Base EXCEPT !.entry = <<"#", "x">>],
   [Base EXCEPT !.time = <<"February", " ", "3", "0", COMMA, " ", "2", "0",
                           "2", "1", " ", "0", "9", ":", "4", "1">>],
   [Base EXCEPT !.subj = Over10(<<"x">>)],
   [Base EXCEPT !.subj = Over10(<<"5", "5">>)],
   [Base EXCEPT !.income = <<"Unspecified">>],
   [Base EXCEPT !.income = <<"Unspecified">>, !.quote = "fixed"],
   [Base EXCEPT !.education = <<"PhD">>],
   [Base EXCEPT !.businesses =
      <<"Mid-size business (or multiple small businesses", COMMA,
        " e.g. franchises)">>],
   [Base EXCEPT !.homes = <<"Two homes">>],
   [Base EXCEPT !.policy2 = <<"Strongly agree">>],
   [Base EXCEPT !.politics = <<"Centrist">>]}

SubjTexts ==
  {ToDigits(n) : n \in 0..MaxScore}
  \cup {<<"5", "5">>, <<"1", "0", "0">>, <<"x">>, <<>>, <<"+", "5">>,
        <<"-", "3">>, <<"0", "7">>}

\* the base response with one column varied over every key of its table
CsvTableRecords ==
  {[Base EXCEPT !.income = k] : k \in DOMAIN d_income}
  \cup {[Base EXCEPT !.education = k] : k \in DOMAIN d_education}
  \cup {[Base EXCEPT !.businesses = k] : k \in DOMAIN d_business}
  \cup {[Base EXCEPT !.rentals = k] : k \in DOMAIN d_rentals}
  \cup {[Base EXCEPT !.homes = k] : k \in DOMAIN d_homes}
  \cup {[Base EXCEPT !.policy1 = k] : k \in DOMAIN d_policies}
  \cup {[Base EXCEPT !.policy2 = k] : k \in DOMAIN d_policies}
  \cup {[Base EXCEPT !.policy3 = k] : k \in DOMAIN d_policies}
  \cup {[Base EXCEPT !.policy4 = k] : k \in DOMAIN d_policies}
  \cup {[Base EXCEPT !.politics = k] : k \in DOMAIN d_politics}

\* the same responses in both ways of writing a line
TableRecords ==
  CsvTableRecords \cup {[r EXCEPT !.quote = "fixed"] : r \in CsvTableRecords}

\* the base response with the subjective status varied
SubjRecords == {[Base EXCEPT !.subj = Over10(t)] : t \in SubjTexts}

FieldRecords == TableRecords \cup SubjRecords

SeqsUpTo(S, n) == UNION {[1..k -> S] : k \in 0..n}

(* ---------------- the state machine ---------------- *)

NoResults ==
  [objective_scores |-> <<>>, property_scores |-> <<>>,
   policy_scores |-> <<>>]

InitWith(rs) ==
  /\ answers = rs
  /\ content = WriteFile(rs)
  /\ fpos = 0
  /\ fstate = "unopened"
  /\ line = <<>>
  /\ data = EmptyData
  /\ pc = "start"
  /\ err = ""
  /\ results = NoResults

Init == \E rs \in SeqsUpTo(GeneralRecords, MaxLines) : InitWith(rs)

InitFields == \E rs \in SeqsUpTo(FieldRecords, MaxFieldLines) : InitWith(rs)

\* importData up to the loop: the empty lists, open, the first readline
Open ==
  /\ pc = "start"
  /\ data' = EmptyData
  /\ fstate' = "open"
  /\ line' = ReadLine(content, fpos)
  /\ fpos' = fpos + Len(ReadLine(content, fpos))
  /\ pc' = "loop"
  /\ UNCHANGED <<answers, content, err, results>>

\* one pass of the loop that reaches its end: every list is appended to and
\* the next line is read
LoopBodyOk ==
  /\ pc = "loop"
  /\ line # <<>>
  /\ Body(line).stage = 8
  /\ data' = AppendFields(data, Body(line))
  /\ line' = ReadLine(content, fpos)
  /\ fpos' = fpos + Len(ReadLine(content, fpos))
  /\ UNCHANGED <<answers, content, fstate, pc, err, results>>

\* one pass of the loop that raises: the lists appended to before the
\* statement that raises keep their new element, and importData is left
\* through the exception
LoopBodyRaise ==
  /\ pc = "loop"
  /\ line # <<>>
  /\ Body(line).stage < 8
  /\ data' = AppendFields(data, Body(line))
  /\ err' = ErrorOf(line)
  /\ pc' = "raised"
  /\ UNCHANGED <<answers, content, fpos, fstate, line, results>>

\* the end of the file: f.close() and return data
CloseReturn ==
  /\ pc = "loop"
  /\ line = <<>>
  /\ fstate' = "closed"
  /\ pc' = "returned"
  /\ UNCHANGED <<answers, content, fpos, line, data, err, results>>

\* SurveyResults(data): the composite scores, then genStats, whose
\* stats.describe raises ValueError on an empty array.  The floating-point
\* statistics are not represented.
SurveyResultsInit ==
  /\ pc = "returned"
  /\ results' = [objective_scores |-> objective_scores(data),
                 property_scores |-> property_scores(data),
                 policy_scores |-> policy_scores(data)]
  /\ IF Len(data["entry"]) = 0
     THEN pc' = "init raised" /\ err' = "ValueError"
     ELSE pc' = "constructed" /\ err' = err
  /\ UNCHANGED <<answers, content, fpos, fstate, line, data>>

Next ==
  \/ Open
  \/ LoopBodyOk
  \/ LoopBodyRaise
  \/ CloseReturn
  \/ SurveyResultsInit

Spec == Init /\ [][Next]_vars

SpecFields == InitFields /\ [][Next]_vars

(* ---------------- properties ---------------- *)

\* importData has returned its data
AfterLoad == pc \in {"returned", "constructed", "init raised"}

\* the number of passes of the loop that reached their end
Parsed == Len(data["politics"])

InputLines == LinesOf(content)

\* the key of table d scored v
Inverse(d, v) == CHOOSE k \in DOMAIN d : d[k] = v

\* the third quote-delimited segment of a line written with score text t
SESSegment(t) == <<COMMA>> \o Over10(t) \o <<COMMA>>

\* C1: when a line fails to parse, nothing of that line has been appended:
\* all 13 lists have one length, the number of lines parsed before it.
C1_AtomicRecord ==
  pc = "raised" => \A k \in Keys : Len(data[k]) = Parsed

\* C2: after a load in which every line parsed, each of the 13 lists has as
\* many elements as the file has lines, and element i of each list is the
\* value scored from line i.
C2_FullLoad ==
  (AfterLoad /\ \A i \in 1..Len(InputLines) : Body(InputLines[i]).stage = 8)
  => \A k \in Keys :
       /\ Len(data[k]) = Len(InputLines)
       /\ \A i \in 1..Len(InputLines) :
            data[k][i] = Body(InputLines[i]).vals[k]

C2_Witness ==
  /\ pc = "returned"
  /\ Len(InputLines) = 2
  /\ data["entry"] = <<12, 1>>
  /\ data["politics"] = <<2, -1>>

\* C3 as stated: for every parsed line and every categorical column, the
\* inverse of the column's table maps the stored score back to the answer
\* text of the line.
C3_RoundTripAll ==
  AfterLoad =>
    \A i \in 1..Len(answers) :
      /\ Inverse(d_income, data["income"][i]) = answers[i].income
      /\ Inverse(d_education, data["education"][i]) = answers[i].education
      /\ Inverse(d_business, data["businesses"][i]) = answers[i].businesses
      /\ Inverse(d_rentals, data["rentals"][i]) = answers[i].rentals
      /\ Inverse(d_homes, data["homes"][i]) = answers[i].homes
      /\ Inverse(d_policies, data["policy question 1"][i])
           = answers[i].policy1
      /\ Inverse(d_policies, data["policy question 2"][i])
           = answers[i].policy2
      /\ Inverse(d_policies, data["policy question 3"][i])
           = answers[i].policy3
      /\ Inverse(d_policies, data["policy question 4"][i])
           = answers[i].policy4
      /\ Inverse(d_politics, data["politics"][i]) = answers[i].politics

\* C3 as amended: the round trip holds for every categorical column but
\* policy question 4, whose stored score is the negated table value: there
\* the inverse of the negated stored score is the answer text.
C3_RoundTrip ==
  AfterLoad =>
    \A i \in 1..Len(answers) :
      /\ Inverse(d_income, data["income"][i]) = answers[i].income
      /\ Inverse(d_education, data["education"][i]) = answers[i].education
      /\ Inverse(d_business, data["businesses"][i]) = answers[i].businesses
      /\ Inverse(d_rentals, data["rentals"][i]) = answers[i].rentals
      /\ Inverse(d_homes, data["homes"][i]) = answers[i].homes
      /\ Inverse(d_policies, data["policy question 1"][i])
           = answers[i].policy1
      /\ Inverse(d_policies, data["policy question 2"][i])
           = answers[i].policy2
      /\ Inverse(d_policies, data["policy question 3"][i])
           = answers[i].policy3
      /\ Inverse(d_policies, 0 - data["policy question 4"][i])
           = answers[i].policy4
      /\ Inverse(d_politics, data["politics"][i]) = answers[i].politics

C3_Witness ==
  /\ pc = "returned"
  /\ Len(answers) = 1
  /\ answers[1].policy4 = <<"Strongly disagree">>
  /\ data["policy question 4"] = <<2>>

\* C4: for every record, objective = income + education, property =
\* businesses + rentals + homes and policy = T(1) + T(2) + T(3) - T(4) over
\* the table values of the answers; "Strongly Agree" to question 4 adds -2.
C4_Composites ==
  pc = "constructed" =>
    /\ Len(results.objective_scores) = Len(answers)
    /\ Len(results.property_scores) = Len(answers)
    /\ Len(results.policy_scores) = Len(answers)
    /\ \A i \in 1..Len(answers) :
         /\ results.objective_scores[i]
              = d_income[answers[i].income]
                + d_education[answers[i].education]
         /\ results.property_scores[i]
              = d_business[answers[i].businesses]
                + d_rentals[answers[i].rentals] + d_homes[answers[i].homes]
         /\ results.policy_scores[i]
              = d_policies[answers[i].policy1]
                + d_policies[answers[i].policy2]
                + d_policies[answers[i].policy3]
                - d_policies[answers[i].policy4]

C4_Witness ==
  /\ pc = "constructed"
  /\ Len(answers) = 1
  /\ answers[1].policy1 = <<"Strongly Agree">>
  /\ answers[1].policy4 = <<"Strongly Agree">>
  /\ results.policy_scores = <<-1>>

\* the response of the example: income "$50,001 - $75,000" and education
\* "College degree"
IsExample(r) ==
  /\ r.income = <<"$50", COMMA, "001 - $75", COMMA, "000">>
  /\ r.education = <<"College degree">>

\* C5 as stated: the example's income is scored 2 and its objective-status
\* composite is 5.
C5_ExampleAsStated ==
  pc = "constructed" =>
    \A i \in 1..Len(answers) :
      IsExample(answers[i]) =>
        data["income"][i] = 2 /\ results.objective_scores[i] = 5

\* C5 as amended: the example's income is scored 3 and, with education 3,
\* its objective-status composite is 6.
C5_Example ==
  pc = "constructed" =>
    \A i \in 1..Len(answers) :
      IsExample(answers[i]) =>
        /\ data["income"][i] = 3
        /\ data["education"][i] = 3
        /\ results.objective_scores[i] = 6

C5_Witness ==
  /\ pc = "constructed"
  /\ Len(answers) = 1
  /\ IsExample(answers[1])
  /\ results.objective_scores = <<6>>

\* C6: every stored subjective-status score is an integer in 1..10; a text
\* outside that range fails the record and is never stored.
C6_SubjectiveRange ==
  \A i \in 1..Len(data["subjective SES"]) :
    data["subjective SES"][i] \in 1..10

\* C7: a line whose split on the quote character gives other than 5
\* segments is never parsed into a record.
C7_FiveSegments ==
  \A i \in 1..Parsed : Len(Split(InputLines[i], QUOTE)) = 5

\* C8: whenever importData has been left, by return or by an exception, its
\* file is closed.
C8_FileClosed ==
  (AfterLoad \/ pc = "raised") => fstate = "closed"

\* C9: for every N in 1..10 a line whose third segment is ",N / 10," has its
\* subjective status stored as N (the parse does not fail there), and for N
\* in 2..9 the strip alone leaves the digit N.
C9_ScoreLiterals ==
  \A n \in 1..10 :
    LET seg == SESSegment(ToDigits(n))
    IN /\ \A i \in 1..Len(data["subjective SES"]) :
            Split(InputLines[i], QUOTE)[3] = seg
              => data["subjective SES"][i] = n
       /\ (pc = "raised" /\ Len(Split(line, QUOTE)) >= 5
             /\ Split(line, QUOTE)[3] = seg)
            => Body(line).stage # 3
       /\ (n \in 2..9 /\ pc = "loop" /\ Len(Split(line, QUOTE)) >= 5
             /\ Split(line, QUOTE)[3] = seg)
            => Strip(seg, SESStripChars) = ToDigits(n)

C9_Witness ==
  /\ pc = "returned"
  /\ Len(InputLines) = 1
  /\ Split(InputLines[1], QUOTE)[3] = SESSegment(<<"1", "0">>)
  /\ data["subjective SES"] = <<10>>

\* C10: every key of every table is reachable through the parser: the line
\* of a response whose categorical answers are all keys of their tables, in
\* either way of writing it, does not raise.
C10_EveryKeyParses ==
  \A r \in TableRecords : ~(pc = "raised" /\ line = WriteLine(r))

====
